---- MODULE Spec2Model ----
(***************************************************************************)
(* Model of src/navigation/_CollapsingNavigationMenu.jsx: the resolver     *)
(* keysToItem / openKeysToItem and the CollapsingNavigationMenu component  *)
(* (openKeys and currentNodeId state, the cursor ref, the list of visible  *)
(* nodes rebuilt by every render, the click and key handlers and the       *)
(* effects that run after a render).                                       *)
(*                                                                         *)
(* Strings the code takes apart (item names, element ids) are sequences of *)
(* one-character strings, so '' is <<>>.  Paths are only compared and are  *)
(* plain strings.  Array indices are 0-based as in the code; a JavaScript  *)
(* array a is a TLA+ sequence s with a[i] = s[i + 1].                      *)
(***************************************************************************)
EXTENDS Integers, Sequences, FiniteSets, TLC

VARIABLES
  menuItems,      \* prop: the list whose first element is the root item
  selectedPath,   \* prop: the selected path, or Undefined
  openKeys,       \* state: mapping path -> BOOLEAN (a key may be absent)
  currentNodeId,  \* state: id of the node emphasised by the keyboard, or NoNode
  cursor,         \* ref: cursor.current
  focus,          \* id of the element that has input focus, or NoNode
  paths,          \* the list keysToItem returned for the current selectedPath
  onSelectCalls,  \* the arguments onSelect was called with by the last event
  lastEvent       \* the event handled last

vars == <<menuItems, selectedPath, openKeys, currentNodeId, cursor, focus,
          paths, onSelectCalls, lastEvent>>

-----------------------------------------------------------------------------
(* Values                                                                   *)

\* selectedPath = undefined (the default of the prop).
Undefined == "<undefined>"

\* useState() without a value, a ref without an element, the parent '' of a
\* first-level node: no id.
NoNode == <<>>

\* A path no item carries.
AbsentPath == "/absent"

\* keycode-js
KEY_TAB == 9
KEY_RETURN == 13
KEY_SPACE == 32
KEY_END == 35
KEY_HOME == 36
KEY_LEFT == 37
KEY_UP == 38
KEY_RIGHT == 39
KEY_DOWN == 40
KEY_A == 65
KEY_Z == 90

LowerCase == <<"a", "b", "c", "d", "e", "f", "g", "h", "i", "j", "k", "l", "m",
               "n", "o", "p", "q", "r", "s", "t", "u", "v", "w", "x", "y", "z">>

UpperCase == <<"A", "B", "C", "D", "E", "F", "G", "H", "I", "J", "K", "L", "M",
               "N", "O", "P", "Q", "R", "S", "T", "U", "V", "W", "X", "Y", "Z">>

\* String.prototype.toUpperCase on one character.
toUpperCase(ch) ==
  IF \E i \in 1..26 : LowerCase[i] = ch
  THEN UpperCase[CHOOSE i \in 1..26 : LowerCase[i] = ch]
  ELSE ch

\* String.fromCharCode for the key codes of the letter keys.
fromCharCode(keyCode) == UpperCase[keyCode - KEY_A + 1]

Range(s) == {s[i] : i \in 1..Len(s)}

Min(a, b) == IF a < b THEN a ELSE b

Max(a, b) == IF a > b THEN a ELSE b

-----------------------------------------------------------------------------
(* Navigation items: records with name and path, and childItems when the    *)
(* item is a parent.                                                        *)

Leaf(name, path) == [name |-> name, path |-> path]

Parent(name, path, childItems) ==
  [name |-> name, path |-> path, childItems |-> childItems]

\* `item.childItems` as a condition: true of every array, the empty one too.
HasChildItems(item) == "childItems" \in DOMAIN item

-----------------------------------------------------------------------------
(* The resolver                                                             *)

RECURSIVE keysToItem(_, _)
RECURSIVE keysToItemSome(_, _, _)
RECURSIVE keysToItemSome_prepend(_, _, _)
RECURSIVE keysToItemSome_nested(_, _, _)
RECURSIVE keysToItemSome_directFirst(_, _, _)

\* keysToItemSome that compares every child with selPath before it searches
\* below any of them.
keysToItemSome_directFirst(item, selPath, k) ==
  IF k > Len(item.childItems) THEN <<>>
  ELSE IF \E j \in k..Len(item.childItems) : selPath = item.childItems[j].path
       THEN <<item.path>>
  ELSE LET childPaths == keysToItem(item.childItems[k], selPath) IN
       IF Len(childPaths) > 0 THEN childPaths \o <<item.path>>
       ELSE keysToItemSome_directFirst(item, selPath, k + 1)

\* keysToItemSome with the item's path put before the paths of the child.
keysToItemSome_prepend(item, selPath, k) ==
  IF k > Len(item.childItems) THEN <<>>
  ELSE LET childItem == item.childItems[k] IN
       IF selPath = childItem.path THEN <<item.path>>
       ELSE LET childPaths == keysToItem(childItem, selPath) IN
            IF Len(childPaths) > 0 THEN <<item.path>> \o childPaths
            ELSE keysToItemSome_prepend(item, selPath, k + 1)

\* keysToItemSome that keeps only the paths of the child.
keysToItemSome_nested(item, selPath, k) ==
  IF k > Len(item.childItems) THEN <<>>
  ELSE LET childItem == item.childItems[k] IN
       IF selPath = childItem.path THEN <<item.path>>
       ELSE LET childPaths == keysToItem(childItem, selPath) IN
            IF Len(childPaths) > 0 THEN childPaths
            ELSE keysToItemSome_nested(item, selPath, k + 1)

\* The childItems.some(...) callback applied from child k on; yields the
\* value `paths` has when some() returns.
keysToItemSome(item, selPath, k) ==
  IF k > Len(item.childItems) THEN <<>>
  ELSE LET childItem == item.childItems[k] IN
       IF selPath = childItem.path THEN <<item.path>>
       ELSE LET childPaths == keysToItem(childItem, selPath) IN
            IF Len(childPaths) > 0 THEN childPaths \o <<item.path>>
            ELSE keysToItemSome(item, selPath, k + 1)

keysToItem(item, selPath) ==
  IF HasChildItems(item) THEN keysToItemSome(item, selPath, 1) ELSE <<>>

\* openKeysToItem that keeps the first of the paths only.
openKeysToItem_first(item, selPath) ==
  [path \in {keysToItem(item, selPath)[i] :
              i \in 1..Min(1, Len(keysToItem(item, selPath)))} |-> TRUE]

openKeysToItem(item, selPath) ==
  [path \in Range(keysToItem(item, selPath)) |-> TRUE]

\* Spread that drops the entries of a.
Spread_replace(a, b) == b

\* { ...a, ...b }
Spread(a, b) ==
  [path \in (DOMAIN a) \cup (DOMAIN b) |->
     IF path \in DOMAIN b THEN b[path] ELSE a[path]]

\* openKeys[path] as a condition (an absent key is undefined, which is falsy).
IsOpen(ok, path) == path \in DOMAIN ok /\ ok[path]

-----------------------------------------------------------------------------
(* Rendering                                                                *)

RECURSIVE nameToId(_)

\* item.name.split(' ').join('-')
nameToId(name) ==
  IF name = <<>> THEN <<>>
  ELSE <<IF Head(name) = " " THEN "-" ELSE Head(name)>> \o nameToId(Tail(name))

RECURSIVE renderMenuItems(_, _, _, _)
RECURSIVE renderMenuItems_sameParent(_, _, _, _)

\* renderMenuItems that hands its own parent on to the child items.
renderMenuItems_sameParent(ok, currentMenuItem, parent, k) ==
  IF k > Len(currentMenuItem) THEN <<>>
  ELSE LET item == currentMenuItem[k]
           id == nameToId(item.name)
           itemIsOpen == IsOpen(ok, item.path)
       IN  <<[id |-> id, parent |-> parent, item |-> item, itemIsOpen |-> itemIsOpen]>>
           \o (IF itemIsOpen /\ HasChildItems(item)
               THEN renderMenuItems_sameParent(ok, item.childItems, parent, 1)
               ELSE <<>>)
           \o renderMenuItems_sameParent(ok, currentMenuItem, parent, k + 1)

\* The elements rendered for the items of currentMenuItem from index k on, in
\* the order in which the render pushes their { id, parent } to visibleNodes.
renderMenuItems(ok, currentMenuItem, parent, k) ==
  IF k > Len(currentMenuItem) THEN <<>>
  ELSE LET item == currentMenuItem[k]
           id == nameToId(item.name)
           itemIsOpen == IsOpen(ok, item.path)
       IN  <<[id |-> id, parent |-> parent, item |-> item, itemIsOpen |-> itemIsOpen]>>
           \o (IF itemIsOpen /\ HasChildItems(item)
               THEN renderMenuItems(ok, item.childItems, id, 1)
               ELSE <<>>)
           \o renderMenuItems(ok, currentMenuItem, parent, k + 1)

\* The elements of one render of the component.
Rendered(items, ok) ==
  IF HasChildItems(items[1]) THEN renderMenuItems(ok, items[1].childItems, NoNode, 1)
  ELSE <<>>

RECURSIVE pushed(_)

\* The { id, parent } pushed to visibleNodes for each of the elements.
pushed(els) ==
  IF els = <<>> THEN <<>>
  ELSE <<[id |-> Head(els).id, parent |-> Head(els).parent]>> \o pushed(Tail(els))

\* visibleNodes after a render with the given openKeys.
visibleNodesOf(items, ok) == pushed(Rendered(items, ok))

visibleNodes == visibleNodesOf(menuItems, openKeys)

\* Array.prototype.findIndex on el.id === id: 0-based, -1 when there is none.
findIndex(nodes, id) ==
  IF \E i \in 1..Len(nodes) : nodes[i].id = id
  THEN (CHOOSE i \in 1..Len(nodes) :
          nodes[i].id = id /\ \A j \in 1..(i - 1) : nodes[j].id # id) - 1
  ELSE -1

\* Array.prototype.slice(from, to): a negative index counts from the end and
\* both indices are clamped to the array.
slice(nodes, from, to) ==
  LET rel(x) == IF x < 0 THEN Max(Len(nodes) + x, 0) ELSE Min(x, Len(nodes))
      lo == rel(from)
      hi == rel(to)
  IN  IF lo >= hi THEN <<>> ELSE SubSeq(nodes, lo + 1, hi)

\* document.getElementById(id) on the rendered elements els: the index of
\* the first element with the id, 0 for null.
getElementById(els, id) == findIndex(els, id) + 1

\* The attributes the menu item element carries for its item:
\* aria-expanded is 'true' on an expanded parent, 'false' on a collapsed one
\* and absent on an item that cannot be expanded; aria-haspopup marks the
\* items that can be expanded.
ariaExpanded(el) ==
  IF HasChildItems(el.item) THEN (IF el.itemIsOpen THEN "true" ELSE "false")
  ELSE "null"

ariaHasPopup(el) == HasChildItems(el.item)

-----------------------------------------------------------------------------------------------------------------------------------------------------
(* Handlers.  A handler yields the values it leaves behind: cursor.current, *)
(* the currentNodeId and openKeys it has set, its calls of onSelect, and    *)
(* whether it ended in a TypeError (reading a property of undefined or      *)
(* null), which keeps what was assigned before the error.  The handlers of  *)
(* a render close over its visibleNodes, here the parameter nodes, and the  *)
(* document holds its elements, here els.                                   *)

Unchanged ==
  [cursor |-> cursor, currentNodeId |-> currentNodeId, openKeys |-> openKeys,
   onSelect |-> <<>>, threw |-> FALSE]

\* moveCursorTo without the call of setCurrentNodeId.
moveCursorTo_cursorOnly(nodes, c) ==
  [Unchanged EXCEPT !.cursor = c]

\* cursor.current = c; setCurrentNodeId(visibleNodes[cursor.current].id)
moveCursorTo(nodes, c) ==
  IF 0 <= c /\ c < Len(nodes)
  THEN [Unchanged EXCEPT !.cursor = c, !.currentNodeId = nodes[c + 1].id]
  ELSE [Unchanged EXCEPT !.cursor = c, !.threw = TRUE]

\* toggled without the entries of ok.
toggled_alone(ok, item) == [path \in {item.path} |-> ~IsOpen(ok, item.path)]

\* { ...openKeys, [item.path]: !openKeys[item.path] }
toggled(ok, item) ==
  Spread(ok, [path \in {item.path} |-> ~IsOpen(ok, item.path)])

\* handleOnClick that toggles every item, a leaf too.
handleOnClick_toggle(item) ==
  [Unchanged EXCEPT !.openKeys = toggled(openKeys, item)]

handleOnClick(item) ==
  IF ~HasChildItems(item)
  THEN [Unchanged EXCEPT !.onSelect = <<item.path>>]
  ELSE [Unchanged EXCEPT !.openKeys = toggled(openKeys, item)]

\* handleDownArrow that also moves from the last index.
handleDownArrow_past(nodes) ==
  IF cursor + 1 <= Len(nodes) THEN moveCursorTo(nodes, cursor + 1) ELSE Unchanged

handleDownArrow(nodes) ==
  IF cursor + 1 < Len(nodes) THEN moveCursorTo(nodes, cursor + 1) ELSE Unchanged

handleUpArrow(nodes) ==
  IF cursor >= 1 THEN moveCursorTo(nodes, cursor - 1) ELSE Unchanged

\* findParentNode that moves to the node before the current one.
findParentNode_previous(nodes) ==
  IF currentNodeId = NoNode THEN Unchanged
  ELSE LET found == findIndex(nodes, currentNodeId) IN
       IF found < 0 THEN [Unchanged EXCEPT !.threw = TRUE]
       ELSE LET parentId == nodes[found + 1].parent IN
            IF parentId # NoNode THEN moveCursorTo(nodes, found - 1) ELSE Unchanged

findParentNode(nodes) ==
  IF currentNodeId = NoNode THEN Unchanged
  ELSE LET found == findIndex(nodes, currentNodeId) IN
       IF found < 0 THEN [Unchanged EXCEPT !.threw = TRUE]
       ELSE LET parentId == nodes[found + 1].parent IN
            IF parentId # NoNode
            THEN moveCursorTo(nodes, findIndex(nodes, parentId))
            ELSE Unchanged

\* findNodeMatching that does not wrap around to the beginning of the menu.
findNodeMatching_nowrap(nodes, char) ==
  LET sortedNodes == slice(nodes, cursor + 1, Len(nodes))
      matches == {i \in 1..Len(sortedNodes) : toUpperCase(sortedNodes[i].id[1]) = char}
  IN  IF matches = {} THEN Unchanged
      ELSE LET match == sortedNodes[CHOOSE i \in matches : \A j \in matches : i <= j]
           IN  [Unchanged EXCEPT !.cursor = findIndex(nodes, match.id),
                                 !.currentNodeId = match.id]

findNodeMatching(nodes, char) ==
  LET sortedNodes == slice(nodes, cursor + 1, Len(nodes)) \o slice(nodes, 0, cursor)
      matches == {i \in 1..Len(sortedNodes) : toUpperCase(sortedNodes[i].id[1]) = char}
  IN  IF matches = {} THEN Unchanged
      ELSE LET match == sortedNodes[CHOOSE i \in matches : \A j \in matches : i <= j]
           IN  [Unchanged EXCEPT !.cursor = findIndex(nodes, match.id),
                                 !.currentNodeId = match.id]

\* case KeyCode.KEY_RIGHT that expands whatever is not expanded and never
\* goes down.
handleKeyRight_always(els, nodes, item) ==
  LET el == getElementById(els, currentNodeId)
  IN  IF currentNodeId = NoNode THEN Unchanged
      ELSE IF el = 0 THEN [Unchanged EXCEPT !.threw = TRUE]
      ELSE handleOnClick(item)

\* case KeyCode.KEY_RIGHT
handleKeyRight(els, nodes, item) ==
  LET el == getElementById(els, currentNodeId)
      expanded == ariaExpanded(els[el])
  IN  IF currentNodeId = NoNode THEN Unchanged
      ELSE IF el = 0 THEN [Unchanged EXCEPT !.threw = TRUE]
      ELSE IF expanded = "true" THEN handleDownArrow(nodes)
      ELSE IF ariaHasPopup(els[el]) /\ expanded \in {"null", "false"}
           THEN handleOnClick(item)
      ELSE Unchanged

\* case KeyCode.KEY_LEFT without the test of currentNodeId around it.
handleKeyLeft_unguarded(els, nodes, item) ==
  LET el == getElementById(els, currentNodeId)
      expanded == ariaExpanded(els[el])
  IN  IF currentNodeId = NoNode THEN handleOnClick(item)
      ELSE IF el = 0 THEN [Unchanged EXCEPT !.threw = TRUE]
      ELSE IF expanded = "true" THEN handleOnClick(item)
      ELSE IF ~ariaHasPopup(els[el]) \/ expanded \in {"null", "false"}
           THEN findParentNode(nodes)
      ELSE Unchanged

\* case KeyCode.KEY_LEFT
handleKeyLeft(els, nodes, item) ==
  LET el == getElementById(els, currentNodeId)
      expanded == ariaExpanded(els[el])
  IN  IF currentNodeId = NoNode THEN Unchanged
      ELSE IF el = 0 THEN [Unchanged EXCEPT !.threw = TRUE]
      ELSE IF expanded = "true" THEN handleOnClick(item)
      ELSE IF ~ariaHasPopup(els[el]) \/ expanded \in {"null", "false"}
           THEN findParentNode(nodes)
      ELSE Unchanged

handleKeyDown(els, nodes, keyCode, shiftKey, item) ==
  CASE keyCode \in {KEY_SPACE, KEY_RETURN} -> handleOnClick(item)
    [] keyCode = KEY_DOWN -> handleDownArrow(nodes)
    [] keyCode = KEY_UP -> handleUpArrow(nodes)
    [] keyCode = KEY_RIGHT -> handleKeyRight(els, nodes, item)
    [] keyCode = KEY_LEFT -> handleKeyLeft(els, nodes, item)
    [] keyCode = KEY_HOME -> moveCursorTo(nodes, 0)
    [] keyCode = KEY_END -> moveCursorTo(nodes, Len(nodes) - 1)
    [] keyCode = KEY_TAB ->
         IF shiftKey THEN handleUpArrow(nodes) ELSE handleDownArrow(nodes)
    [] OTHER ->
         IF keyCode >= KEY_A /\ keyCode <= KEY_Z
         THEN findNodeMatching(nodes, fromCharCode(keyCode))
         ELSE Unchanged

-----------------------------------------------------------------------------
(* Render and effects                                                       *)

Event(type, keyCode, shiftKey, path, threw) ==
  [type |-> type, keyCode |-> keyCode, shiftKey |-> shiftKey, path |-> path,
   threw |-> threw]

\* visibleNodes of the render that follows a handler (nodes: those of the
\* render before it).
rerender(r, nodes) ==
  IF r.openKeys = openKeys THEN nodes ELSE visibleNodesOf(menuItems, r.openKeys)

\* The focus after the render that follows a handler: when currentNodeId has
\* changed the effect on [currentNodeId] focuses its element; otherwise the
\* focus is where the browser left it (nativeFocus), and an element that is
\* no longer rendered loses it.
focusAfter(r, nodes, nativeFocus) ==
  IF r.currentNodeId # currentNodeId /\ findIndex(nodes, r.currentNodeId) >= 0
  THEN r.currentNodeId
  ELSE IF findIndex(nodes, nativeFocus) >= 0 THEN nativeFocus
  ELSE NoNode

\* The render that follows a handler and the effect on [currentNodeId]:
\* when currentNodeId has changed, cursor.current becomes the index of the
\* node in the new visibleNodes.
Commit(r, nodes) ==
  /\ openKeys' = r.openKeys
  /\ currentNodeId' = r.currentNodeId
  /\ cursor' = IF r.currentNodeId # currentNodeId /\ r.currentNodeId # NoNode
               THEN findIndex(nodes, r.currentNodeId)
               ELSE r.cursor
  /\ onSelectCalls' = r.onSelect

\* mount without the effect that puts the cursor on the selected element.
mount_unplaced(items, selPath) ==
  {[openKeys |-> openKeysToItem(items[1], selPath),
    paths |-> keysToItem(items[1], selPath),
    currentNodeId |-> NoNode,
    cursor |-> 0,
    focus |-> NoNode]}

\* The first render and its effects: openKeys starts as the keys that lead to
\* selectedPath; the mount effect puts the cursor on the selected element
\* (selectedItem.current, one of the elements rendered with isSelected) when
\* there is one; the effect on [selectedPath] merges the same keys again; and
\* the effect on [currentNodeId] of the render that follows focuses the
\* element.  Yields the possible outcomes.
mount(items, selPath) ==
  LET ok == openKeysToItem(items[1], selPath)
      els == Rendered(items, ok)
      nodes == pushed(els)
      selected == {els[i].id : i \in {j \in 1..Len(els) : els[j].item.path = selPath}}
      after(nodeId) ==
        LET idx == findIndex(nodes, nodeId) IN
        IF idx >= 0
        THEN [currentNodeId |-> nodes[idx + 1].id,
              cursor |-> findIndex(nodes, nodes[idx + 1].id),
              focus |-> nodes[idx + 1].id]
        ELSE [currentNodeId |-> NoNode, cursor |-> 0, focus |-> NoNode]
  IN  {[openKeys |-> Spread(ok, openKeysToItem(items[1], selPath)),
        paths |-> keysToItem(items[1], selPath),
        currentNodeId |-> after(nodeId).currentNodeId,
        cursor |-> after(nodeId).cursor,
        focus |-> after(nodeId).focus] :
         nodeId \in (IF selected = {} THEN {NoNode} ELSE selected)}

-----------------------------------------------------------------------------
(* Menus                                                                    *)

RECURSIVE PathsOf(_)

PathsOf(item) ==
  {item.path} \cup
  (IF HasChildItems(item)
   THEN UNION {PathsOf(item.childItems[k]) : k \in 1..Len(item.childItems)}
   ELSE {})

\* Root -> [A -> [A1, A2], B]
ExampleMenu ==
  <<Parent(<<"R", "o", "o", "t">>, "Root",
      <<Parent(<<"A">>, "A",
          <<Leaf(<<"A", "1">>, "A1"), Leaf(<<"A", "2">>, "A2")>>),
        Leaf(<<"B">>, "B")>>)>>

\* Root -> [Apple, Banana, Cherry]
FruitMenu ==
  <<Parent(<<"F", "r", "u", "i", "t">>, "/",
      <<Leaf(<<"A", "p", "p", "l", "e">>, "/apple"),
        Leaf(<<"B", "a", "n", "a", "n", "a">>, "/banana"),
        Leaf(<<"C", "h", "e", "r", "r", "y">>, "/cherry")>>)>>

\* home -> [core -> [box -> [a b], card], Abc]
DocsMenu ==
  <<Parent(<<"h", "o", "m", "e">>, "/home",
      <<Parent(<<"c", "o", "r", "e">>, "/core",
          <<Parent(<<"b", "o", "x">>, "/core/box",
              <<Leaf(<<"a", " ", "b">>, "/core/box/a-b")>>),
            Leaf(<<"c", "a", "r", "d">>, "/core/card")>>),
        Leaf(<<"A", "b", "c">>, "/abc")>>)>>

Menus == {ExampleMenu, FruitMenu, DocsMenu}

\* The values the host passes as selectedPath.
SelectedPaths(items) == PathsOf(items[1]) \cup {AbsentPath, Undefined}

\* The keys pressed: every key the handler names and the letters A, B, C, Z.
KeyCodes ==
  {KEY_SPACE, KEY_RETURN, KEY_DOWN, KEY_UP, KEY_RIGHT, KEY_LEFT, KEY_HOME,
   KEY_END, KEY_TAB, KEY_A, KEY_A + 1, KEY_A + 2, KEY_Z}

-----------------------------------------------------------------------------
(* The component                                                            *)

\* The component after it has mounted.
Init ==
  \E items \in Menus :
    \E selPath \in SelectedPaths(items) :
      \E m \in mount(items, selPath) :
        /\ menuItems = items
        /\ selectedPath = selPath
        /\ openKeys = m.openKeys
        /\ paths = m.paths
        /\ currentNodeId = m.currentNodeId
        /\ cursor = m.cursor
        /\ focus = m.focus
        /\ onSelectCalls = <<>>
        /\ lastEvent = Event("mount", 0, FALSE, selPath, FALSE)

\* A click on a rendered element: it takes the focus and handleOnClick runs
\* with its item.
Click ==
  \E els \in {Rendered(menuItems, openKeys)} :
    \E el \in Range(els) :
      \E r \in {handleOnClick(el.item)} :
        \E after \in {rerender(r, pushed(els))} :
          /\ Commit(r, after)
          /\ focus' = focusAfter(r, after, el.id)
          /\ lastEvent' = Event("click", 0, FALSE, el.item.path, r.threw)
          /\ UNCHANGED <<menuItems, selectedPath, paths>>

\* A key pressed on the focused element, other than Tab.
KeyDown ==
  /\ focus # NoNode
  /\ \E els \in {Rendered(menuItems, openKeys)} :
       \E nodes \in {pushed(els)}, activeElement \in {els[getElementById(els, focus)]} :
         \E keyCode \in KeyCodes \ {KEY_TAB} :
           \E r \in {handleKeyDown(els, nodes, keyCode, FALSE, activeElement.item)} :
             \E after \in {rerender(r, nodes)} :
               /\ Commit(r, after)
               /\ focus' = focusAfter(r, after, focus)
               /\ lastEvent' = Event("keydown", keyCode, FALSE, activeElement.item.path, r.threw)
               /\ UNCHANGED <<menuItems, selectedPath, paths>>

\* What the browser does with the focus on Tab (Shift+Tab): it goes to the
\* next (previous) element of the menu, or out of the menu.
tabTarget(nodes, shiftKey) ==
  LET to == IF shiftKey THEN findIndex(nodes, focus) - 1 ELSE findIndex(nodes, focus) + 1
  IN  IF 0 <= to /\ to < Len(nodes) THEN nodes[to + 1].id ELSE NoNode

\* Tab or Shift+Tab pressed on the focused element.  The handler does not
\* prevent the default action, so the browser also moves the focus; the focus
\* the effect sets, when it runs, comes before or after that.
KeyDownTab ==
  /\ focus # NoNode
  /\ \E els \in {Rendered(menuItems, openKeys)} :
       \E nodes \in {pushed(els)}, activeElement \in {els[getElementById(els, focus)]} :
         \E shiftKey \in BOOLEAN :
           \E r \in {handleKeyDown(els, nodes, KEY_TAB, shiftKey, activeElement.item)} :
             /\ Commit(r, nodes)
             /\ focus' \in {focusAfter(r, nodes, tabTarget(nodes, shiftKey)),
                            tabTarget(nodes, shiftKey), NoNode}
             /\ lastEvent' = Event("keydown", KEY_TAB, shiftKey, activeElement.item.path, r.threw)
             /\ UNCHANGED <<menuItems, selectedPath, paths>>

\* The host passes another selectedPath: the effect on [selectedPath] merges
\* the keys that lead to it into openKeys.
SelectedPathChange ==
  \E selPath \in SelectedPaths(menuItems) \ {selectedPath} :
    \E keys \in {keysToItem(menuItems[1], selPath)} :
      /\ selectedPath' = selPath
      /\ paths' = keys
      /\ openKeys' = Spread(openKeys, openKeysToItem(menuItems[1], selPath))
      /\ onSelectCalls' = <<>>
      /\ lastEvent' = Event("selectedPath", 0, FALSE, selPath, FALSE)
      /\ UNCHANGED <<menuItems, currentNodeId, cursor, focus>>

Next == Click \/ KeyDown \/ KeyDownTab \/ SelectedPathChange

Spec == Init /\ [][Next]_vars

-----------------------------------------------------------------------------
(* The resolver on every menu of up to MaxNodes items: the host draws a     *)
(* menu and a selectedPath, the component mounts, and the host changes      *)
(* selectedPath.                                                            *)

MaxNodes == 5

GenPaths == <<"p1", "p2", "p3", "p4", "p5", "p6", "p7", "p8">>

GenNames == <<<<"n", "1">>, <<"n", "2">>, <<"n", "3">>, <<"n", "4">>,
              <<"n", "5">>, <<"n", "6">>, <<"n", "7">>, <<"n", "8">>>>

\* The shapes of n items: item i > 1 is a child of an earlier item, and the
\* children of an item are in the order of their numbers.
Shapes(n) == {f \in [2..n -> 1..n] : \A i \in 2..n : f[i] < i}

\* The paths of n items: all different, or one item with the path of another.
Labellings(n) ==
  LET own == [i \in 1..n |-> GenPaths[i]]
  IN  {own} \cup {[own EXCEPT ![j] = own[i]] : i \in 1..n, j \in 1..n}

RECURSIVE GenChildren(_, _, _, _, _)
RECURSIVE GenItem(_, _, _, _)

GenChildren(f, lab, n, i, j) ==
  IF j > n THEN <<>>
  ELSE (IF f[j] = i THEN <<GenItem(f, lab, n, j)>> ELSE <<>>)
       \o GenChildren(f, lab, n, i, j + 1)

GenItem(f, lab, n, i) ==
  LET childItems == GenChildren(f, lab, n, i, i + 1)
  IN  IF childItems = <<>> THEN Leaf(GenNames[i], lab[i])
      ELSE Parent(GenNames[i], lab[i], childItems)

GenMenus ==
  UNION {{<<GenItem(f, lab, n, 1)>> : f \in Shapes(n), lab \in Labellings(n)} :
           n \in 1..MaxNodes}

InitResolver ==
  \E items \in GenMenus :
    \E selPath \in SelectedPaths(items) :
      /\ menuItems = items
      /\ selectedPath = selPath
      /\ openKeys = <<>>
      /\ paths = <<>>
      /\ currentNodeId = NoNode
      /\ cursor = 0
      /\ focus = NoNode
      /\ onSelectCalls = <<>>
      /\ lastEvent = Event("props", 0, FALSE, selPath, FALSE)

Mount ==
  /\ lastEvent.type = "props"
  /\ \E m \in mount(menuItems, selectedPath) :
       /\ openKeys' = m.openKeys
       /\ paths' = m.paths
       /\ currentNodeId' = m.currentNodeId
       /\ cursor' = m.cursor
       /\ focus' = m.focus
  /\ onSelectCalls' = <<>>
  /\ lastEvent' = Event("mount", 0, FALSE, selectedPath, FALSE)
  /\ UNCHANGED <<menuItems, selectedPath>>

ChangeAfterMount ==
  /\ lastEvent.type # "props"
  /\ SelectedPathChange

NextResolver == Mount \/ ChangeAfterMount

SpecResolver == InitResolver /\ [][NextResolver]_vars

-----------------------------------------------------------------------------
(* Properties                                                               *)

RECURSIVE Positions(_)
RECURSIVE ItemAt(_, _)

\* The positions of the items of a tree: the sequences of child indices that
\* lead to them from the root, <<>> for the root.
Positions(item) ==
  {<<>>} \cup
  (IF HasChildItems(item)
   THEN UNION {{<<k>> \o pos : pos \in Positions(item.childItems[k])} :
                 k \in 1..Len(item.childItems)}
   ELSE {})

ItemAt(item, pos) ==
  IF pos = <<>> THEN item ELSE ItemAt(item.childItems[Head(pos)], Tail(pos))

UniquePaths(item) ==
  \A pos1, pos2 \in Positions(item) :
    ItemAt(item, pos1).path = ItemAt(item, pos2).path => pos1 = pos2

\* The positions below the root of the items with the path.
PositionsOf(item, path) ==
  {pos \in Positions(item) : pos # <<>> /\ ItemAt(item, pos).path = path}

\* The paths of the proper ancestors of the item at pos, the parent first and
\* the root last.
AncestorPaths(item, pos) ==
  [k \in 1..Len(pos) |-> ItemAt(item, SubSeq(pos, 1, Len(pos) - k)).path]

InRange(c, nodes) == 0 <= c /\ c <= Len(nodes) - 1

\* C1: in every reachable state the cursor is a valid index into the visible
\* node list, 0 <= cursor <= length - 1.
C1_CursorInRange == InRange(cursor, visibleNodes)

\* C2: for a tree with unique paths and a selectedPath that is the path of an
\* item at depth d below the root, keysToItem returns the d - 1 paths of its
\* proper ancestors, each once, the parent first and the root last.
C2_AncestorsNearestFirst ==
  (lastEvent.type # "props" /\ UniquePaths(menuItems[1])) =>
    \A pos \in PositionsOf(menuItems[1], selectedPath) :
      /\ paths = AncestorPaths(menuItems[1], pos)
      /\ Len(paths) = (Len(pos) + 1) - 1
      /\ \A i, j \in 1..Len(paths) : paths[i] = paths[j] => i = j

\* C2 witness: keysToItem has run for an item at depth 4 of a tree with
\* unique paths and returned three paths.
C2_Witness ==
  /\ lastEvent.type = "selectedPath"
  /\ UniquePaths(menuItems[1])
  /\ \E pos \in PositionsOf(menuItems[1], selectedPath) : Len(pos) = 3
  /\ Len(paths) = 3

\* The paths of the items below the root.
PathsBelowRoot(items) ==
  {ItemAt(items[1], pos).path : pos \in Positions(items[1]) \ {<<>>}}

\* C3 as stated: for the tree Root -> [A -> [A1, A2], B] and selectedPath
\* "A1" the resolver returns the list ["A"], without the path of Root, and
\* the open keys derived from it have "A" as their only key.
C3_OnlyParentReturned ==
  (menuItems = ExampleMenu /\ selectedPath = "A1") =>
    /\ paths = <<"A">>
    /\ DOMAIN openKeysToItem(menuItems[1], selectedPath) = {"A"}

\* C3 as amended: for the tree Root -> [A -> [A1, A2], B] and selectedPath
\* "A1" the resolver returns the list ["A", "Root"], and the open keys
\* derived from it have the two keys "A" and "Root", both true.
C3_ParentAndRootReturned ==
  (menuItems = ExampleMenu /\ selectedPath = "A1") =>
    /\ paths = <<"A", "Root">>
    /\ DOMAIN openKeysToItem(menuItems[1], selectedPath) = {"A", "Root"}
    /\ \A path \in {"A", "Root"} : openKeysToItem(menuItems[1], selectedPath)[path]
    /\ lastEvent.type = "mount" =>
         /\ DOMAIN openKeys = {"A", "Root"}
         /\ \A path \in {"A", "Root"} : openKeys[path]

\* C3 witness: the component has mounted with the example tree and "A1".
C3_Witness ==
  /\ menuItems = ExampleMenu
  /\ selectedPath = "A1"
  /\ lastEvent.type = "mount"
  /\ Len(paths) = 2

\* C4: for a selectedPath that is not the path of an item below the root
\* (undefined and the root's own path included) keysToItem returns the empty
\* list, openKeysToItem an empty mapping, and the merge on a change of
\* selectedPath leaves every entry of openKeys as it was.
C4_NoMatchOpensNothing ==
  [][(/\ lastEvent'.type \in {"mount", "selectedPath"}
      /\ selectedPath' \notin PathsBelowRoot(menuItems))
     => /\ paths' = <<>>
        /\ DOMAIN openKeysToItem(menuItems[1], selectedPath') = {}
        /\ DOMAIN openKeys' = DOMAIN openKeys
        /\ \A path \in DOMAIN openKeys : openKeys'[path] = openKeys[path]]_vars

\* C4 witness: selectedPath has changed to a path that is not below the root
\* while some keys were open, and they still are.
C4_Witness ==
  /\ lastEvent.type = "selectedPath"
  /\ selectedPath \notin PathsBelowRoot(menuItems)
  /\ paths = <<>>
  /\ Cardinality(DOMAIN openKeys) >= 2

\* The position of the item rendered with the id.
PositionOfId(id) ==
  CHOOSE pos \in Positions(menuItems[1]) \ {<<>>} :
    nameToId(ItemAt(menuItems[1], pos).name) = id

\* The item rendered with the id.
ItemOfId(id) == ItemAt(menuItems[1], PositionOfId(id))

\* The id of the parent of the item rendered with the id, '' at the first level.
ParentIdOf(id) ==
  LET pos == PositionOfId(id)
  IN  IF Len(pos) = 1 THEN NoNode
      ELSE nameToId(ItemAt(menuItems[1], SubSeq(pos, 1, Len(pos) - 1)).name)

\* The paths of the items that have childItems.
ParentPaths ==
  {ItemAt(menuItems[1], pos).path :
     pos \in {q \in Positions(menuItems[1]) : HasChildItems(ItemAt(menuItems[1], q))}}

\* The index in nodes of the node with the id.
IndexOf(nodes, id) == (CHOOSE i \in 1..Len(nodes) : nodes[i].id = id) - 1

IsVisible(id) == \E i \in 1..Len(visibleNodes) : visibleNodes[i].id = id

Expanded(item) == HasChildItems(item) /\ IsOpen(openKeys, item.path)

\* The last event activated an item: a click, Space or Enter.
Activated(event) ==
  \/ event.type = "click"
  \/ event.type = "keydown" /\ event.keyCode \in {KEY_SPACE, KEY_RETURN}

Pressed(event, keyCode) == event.type = "keydown" /\ event.keyCode = keyCode

\* The key event went to the element of the current node.
OnCurrentNode == currentNodeId # NoNode /\ focus = currentNodeId

\* openKeys' differs from openKeys at most at path.
OnlyChangedAt(path) ==
  /\ DOMAIN openKeys' = DOMAIN openKeys \cup {path}
  /\ \A other \in DOMAIN openKeys \ {path} : openKeys'[other] = openKeys[other]

\* C5: activating a parent (click, Space or Enter on an item with childItems)
\* changes openKeys at the path of that item only, flips it between open and
\* not open and does not call onSelect; and collapsing an open parent and
\* expanding it again gives the visible node list there was before.
C5_ToggleTouchesOnlyItsKey ==
  /\ [][(Activated(lastEvent') /\ lastEvent'.path \in ParentPaths)
        => /\ OnlyChangedAt(lastEvent'.path)
           /\ IsOpen(openKeys', lastEvent'.path) = ~IsOpen(openKeys, lastEvent'.path)
           /\ onSelectCalls' = <<>>]_vars
  /\ [](\A i \in 1..Len(visibleNodes) :
          LET item == ItemOfId(visibleNodes[i].id)
          IN  Expanded(item) =>
                /\ ~IsOpen(toggled(openKeys, item), item.path)
                /\ visibleNodesOf(menuItems, toggled(toggled(openKeys, item), item))
                     = visibleNodes
                /\ toggled(toggled(openKeys, item), item) = openKeys)

\* C5 witness: a collapsed parent has been expanded by a click and its
\* expanded child shows its own child again.
C5_Witness ==
  /\ menuItems = DocsMenu
  /\ lastEvent.type = "click"
  /\ lastEvent.path = "/core"
  /\ IsOpen(openKeys, "/core")
  /\ IsOpen(openKeys, "/core/box")
  /\ Len(visibleNodes) = 5

\* C6: in every reachable state where currentNodeId is set and its node is
\* visible, the cursor is the index of that node: visibleNodes[cursor].id =
\* currentNodeId.
C6_CursorOnCurrentNode ==
  (currentNodeId # NoNode /\ IsVisible(currentNodeId)) =>
    /\ InRange(cursor, visibleNodes)
    /\ visibleNodes[cursor + 1].id = currentNodeId

\* C7: with the cursor in [0, length - 1], Down and Tab set it to
\* min(cursor + 1, length - 1) and Up and Shift+Tab to max(cursor - 1, 0); at
\* the last index Down and Tab, and at index 0 Up and Shift+Tab, change
\* neither cursor nor currentNodeId.  None of these keys changes openKeys or
\* calls onSelect.
C7_ArrowsClamp ==
  [][LET down == Pressed(lastEvent', KEY_DOWN)
                   \/ (Pressed(lastEvent', KEY_TAB) /\ ~lastEvent'.shiftKey)
         up == Pressed(lastEvent', KEY_UP)
                 \/ (Pressed(lastEvent', KEY_TAB) /\ lastEvent'.shiftKey)
         last == Len(visibleNodes) - 1
     IN  /\ (down \/ up) => (openKeys' = openKeys /\ onSelectCalls' = <<>>)
         /\ (down /\ InRange(cursor, visibleNodes)) =>
              /\ cursor' = Min(cursor + 1, last)
              /\ cursor = last => currentNodeId' = currentNodeId
         /\ (up /\ InRange(cursor, visibleNodes)) =>
              /\ cursor' = Max(cursor - 1, 0)
              /\ cursor = 0 => currentNodeId' = currentNodeId]_vars

\* C7 witness: Down has moved the cursor to an index in the middle of the
\* list.
C7_Witness ==
  /\ Pressed(lastEvent, KEY_DOWN)
  /\ cursor = 1
  /\ Len(visibleNodes) >= 3
  /\ currentNodeId = visibleNodes[2].id

\* The indices typeahead looks at from cursor c in a list of n nodes, in
\* order: c + 1 up to n - 1, then 0 up to c - 1.
TypeaheadOrder(c, n) ==
  [k \in 1..(n - Min(c + 1, n)) |-> c + k] \o [k \in 1..Min(c, n) |-> k - 1]

\* The id starts with the letter of the key, in either case.
StartsWithLetter(id, keyCode) ==
  id[1] \in {UpperCase[keyCode - 64], LowerCase[keyCode - 64]}

\* C8: a letter key moves the cursor to the first visible node, in cyclic
\* order from cursor + 1 through index 0 up to cursor - 1, whose id starts
\* with the letter in either case; when no other visible node matches, cursor
\* and currentNodeId stay.  For the visible ids [Apple, Banana, Cherry] and
\* cursor 0, 'C' moves the cursor to 2 and 'A' from there moves it to 0.
C8_TypeaheadWraps ==
  [][(lastEvent'.type = "keydown" /\ lastEvent'.keyCode \in KEY_A..KEY_Z) =>
       LET nodes == visibleNodes
           order == TypeaheadOrder(cursor, Len(nodes))
           matching == {k \in 1..Len(order) :
                          StartsWithLetter(nodes[order[k] + 1].id, lastEvent'.keyCode)}
           first == CHOOSE k \in matching : \A j \in matching : k <= j
       IN  /\ openKeys' = openKeys
           /\ onSelectCalls' = <<>>
           /\ matching = {} => (cursor' = cursor /\ currentNodeId' = currentNodeId)
           /\ matching # {} =>
                (cursor' = order[first] /\ currentNodeId' = nodes[order[first] + 1].id)
           /\ (menuItems = FruitMenu /\ cursor = 0 /\ lastEvent'.keyCode = 67) =>
                cursor' = 2
           /\ (menuItems = FruitMenu /\ cursor = 2 /\ lastEvent'.keyCode = 65) =>
                cursor' = 0]_vars

\* C8 witness: 'C' has wrapped the cursor from a later node to "core" at
\* index 0, the only node before it that starts with c.
C8_Witness ==
  /\ menuItems = DocsMenu
  /\ Pressed(lastEvent, 67)
  /\ cursor = 0
  /\ currentNodeId = <<"c", "o", "r", "e">>
  /\ ~IsOpen(openKeys, "/core")

\* C9: Left on the current node: when it is expanded it is collapsed and the
\* cursor stays; when it is a leaf or a collapsed parent the cursor moves to
\* the index of its parent in the visible node list and openKeys stays; when
\* it is then at the first level, cursor, currentNodeId and openKeys stay.
C9_LeftCollapsesOrGoesToParent ==
  [][(Pressed(lastEvent', KEY_LEFT) /\ OnCurrentNode) =>
       LET item == ItemOfId(currentNodeId)
           parentId == ParentIdOf(currentNodeId)
       IN  /\ Expanded(item) =>
                /\ ~IsOpen(openKeys', item.path)
                /\ OnlyChangedAt(item.path)
                /\ cursor' = cursor
                /\ currentNodeId' = currentNodeId
           /\ (~Expanded(item) /\ parentId # NoNode) =>
                /\ cursor' = IndexOf(visibleNodes, parentId)
                /\ currentNodeId' = parentId
                /\ openKeys' = openKeys
           /\ (~Expanded(item) /\ parentId = NoNode) =>
                /\ cursor' = cursor
                /\ currentNodeId' = currentNodeId
                /\ openKeys' = openKeys]_vars

\* C9 witness: Left on a node below "box" has moved the cursor to "box",
\* which is still expanded.
C9_Witness ==
  /\ menuItems = DocsMenu
  /\ Pressed(lastEvent, KEY_LEFT)
  /\ lastEvent.path = "/core/box/a-b"
  /\ currentNodeId = <<"b", "o", "x">>
  /\ cursor = 1
  /\ IsOpen(openKeys, "/core/box")

\* C10: Right on the current node: when it is an expanded parent the effect
\* is that of Down (cursor to min(cursor + 1, length - 1) for a cursor in the
\* list, openKeys as it was); when it is a collapsed parent it becomes
\* expanded and the cursor stays; when it is a leaf, cursor, currentNodeId
\* and openKeys stay and onSelect is not called.
C10_RightExpandsOrGoesDown ==
  [][(Pressed(lastEvent', KEY_RIGHT) /\ OnCurrentNode) =>
       LET item == ItemOfId(currentNodeId)
           n == Len(visibleNodes)
       IN  /\ Expanded(item) =>
                /\ cursor' = (IF cursor + 1 < n THEN cursor + 1 ELSE cursor)
                /\ InRange(cursor, visibleNodes) => cursor' = Min(cursor + 1, n - 1)
                /\ cursor' # cursor => currentNodeId' = visibleNodes[cursor' + 1].id
                /\ cursor' = cursor => currentNodeId' = currentNodeId
                /\ openKeys' = openKeys
                /\ onSelectCalls' = <<>>
           /\ (HasChildItems(item) /\ ~Expanded(item)) =>
                /\ IsOpen(openKeys', item.path)
                /\ OnlyChangedAt(item.path)
                /\ cursor' = cursor
                /\ currentNodeId' = currentNodeId
           /\ ~HasChildItems(item) =>
                /\ cursor' = cursor
                /\ currentNodeId' = currentNodeId
                /\ openKeys' = openKeys
                /\ onSelectCalls' = <<>>]_vars

\* C10 witness: Right on the expanded "core" has moved the cursor to its
\* first child.
C10_Witness ==
  /\ menuItems = DocsMenu
  /\ Pressed(lastEvent, KEY_RIGHT)
  /\ lastEvent.path = "/core"
  /\ IsOpen(openKeys, "/core")
  /\ currentNodeId = <<"b", "o", "x">>
  /\ cursor = 1

\* The paths of the items that have no childItems.
LeafPaths ==
  {ItemAt(menuItems[1], pos).path :
     pos \in {q \in Positions(menuItems[1]) : ~HasChildItems(ItemAt(menuItems[1], q))}}

\* C11: in every reachable state every key of openKeys is the path of an item
\* that has childItems, and the path of no leaf is a key; a click on a leaf
\* calls onSelect once, with the path of the leaf, and leaves openKeys, cursor
\* and currentNodeId as they were.
C11_LeavesAreNeverKeys ==
  /\ [](\A path \in DOMAIN openKeys : path \in ParentPaths /\ path \notin LeafPaths)
  /\ [][(lastEvent'.type = "click" /\ lastEvent'.path \in LeafPaths)
        => /\ onSelectCalls' = <<lastEvent'.path>>
           /\ openKeys' = openKeys
           /\ cursor' = cursor
           /\ currentNodeId' = currentNodeId]_vars

\* C11 witness: a leaf below an expanded parent has been clicked, onSelect got
\* its path, and the keys of openKeys are the paths of parents.
C11_Witness ==
  /\ menuItems = DocsMenu
  /\ lastEvent.type = "click"
  /\ lastEvent.path = "/core/card"
  /\ onSelectCalls = <<"/core/card">>
  /\ IsOpen(openKeys, "/core")
  /\ "/core/card" \notin DOMAIN openKeys

\* C12: Space and Enter activate the node at the cursor: the item that is
\* toggled or passed to onSelect is the item of visibleNodes[cursor], in every
\* reachable state, also after a click or Tab has moved the focus.
C12_ActivatesNodeAtCursor ==
  [][(Pressed(lastEvent', KEY_SPACE) \/ Pressed(lastEvent', KEY_RETURN)) =>
       /\ InRange(cursor, visibleNodes)
       /\ ItemOfId(visibleNodes[cursor + 1].id).path = lastEvent'.path
       /\ \A i \in 1..Len(onSelectCalls') :
            onSelectCalls'[i] = ItemOfId(visibleNodes[cursor + 1].id).path]_vars

\* pos1 comes before pos2 in the pre-order of the tree: it is a proper prefix
\* of pos2, or has the smaller index where the two first differ.
Before(pos1, pos2) ==
  \/ Len(pos1) < Len(pos2) /\ SubSeq(pos2, 1, Len(pos1)) = pos1
  \/ \E i \in 1..Min(Len(pos1), Len(pos2)) :
       /\ SubSeq(pos1, 1, i - 1) = SubSeq(pos2, 1, i - 1)
       /\ pos1[i] < pos2[i]

RECURSIVE PreOrder(_)

\* The positions of the set in pre-order.
PreOrder(S) ==
  IF S = {} THEN <<>>
  ELSE LET first == CHOOSE pos \in S : \A other \in S \ {pos} : Before(pos, other)
       IN  <<first>> \o PreOrder(S \ {first})

\* The positions below the root of the items all of whose ancestors below the
\* root are open in ok.
Shown(items, ok) ==
  {pos \in Positions(items[1]) \ {<<>>} :
     \A k \in 1..(Len(pos) - 1) : IsOpen(ok, ItemAt(items[1], SubSeq(pos, 1, k)).path)}

\* The { id, parent } of the item at pos.
NodeAt(items, pos) ==
  [id |-> nameToId(ItemAt(items[1], pos).name),
   parent |-> IF Len(pos) = 1 THEN NoNode
              ELSE nameToId(ItemAt(items[1], SubSeq(pos, 1, Len(pos) - 1)).name)]

\* C13: after every render the visible node list is the pre-order of the
\* items below the root all of whose ancestors below the root are open, each
\* once, with the id of its parent ('' at the first level) as parent; the flag
\* of the root item in openKeys does not change the list.
C13_VisibleNodesArePreOrder ==
  LET order == PreOrder(Shown(menuItems, openKeys))
      root == menuItems[1].path
  IN  /\ Len(visibleNodes) = Len(order)
      /\ \A i \in 1..Len(order) : visibleNodes[i] = NodeAt(menuItems, order[i])
      /\ \A i, j \in 1..Len(visibleNodes) :
           visibleNodes[i].id = visibleNodes[j].id => i = j
      /\ \A flag \in BOOLEAN :
           visibleNodesOf(menuItems, Spread(openKeys, [path \in {root} |-> flag]))
             = visibleNodes
      /\ visibleNodesOf(menuItems, [path \in DOMAIN openKeys \ {root} |-> openKeys[path]])
           = visibleNodes

\* C13 witness: a render with two levels open below the root shows the five
\* items in pre-order, the innermost with its parent's id, while the root's
\* own key is in openKeys.
C13_Witness ==
  /\ menuItems = DocsMenu
  /\ visibleNodes =
       <<[id |-> <<"c", "o", "r", "e">>, parent |-> NoNode],
         [id |-> <<"b", "o", "x">>, parent |-> <<"c", "o", "r", "e">>],
         [id |-> <<"a", "-", "b">>, parent |-> <<"b", "o", "x">>],
         [id |-> <<"c", "a", "r", "d">>, parent |-> <<"c", "o", "r", "e">>],
         [id |-> <<"A", "b", "c">>, parent |-> NoNode]>>
  /\ IsOpen(openKeys, "/home")
  /\ lastEvent.type = "click"

\* The selected item is open to view after the step: the paths of the proper
\* ancestors of the item at pos are open in openKeys', the item is in the
\* visible node list of the render with openKeys', and every path that is
\* open in openKeys is open in openKeys'.
Revealed(pos) ==
  LET after == visibleNodesOf(menuItems, openKeys')
      id == nameToId(ItemAt(menuItems[1], pos).name)
  IN  /\ \A k \in 0..(Len(pos) - 1) :
           IsOpen(openKeys', ItemAt(menuItems[1], SubSeq(pos, 1, k)).path)
      /\ \E i \in 1..Len(after) : after[i].id = id
      /\ \A path \in DOMAIN openKeys : openKeys[path] => IsOpen(openKeys', path)

\* C14 as stated: when selectedPath changes to the path of an item of the
\* tree, the root item included, every proper ancestor of the item is open in
\* the resulting openKeys, the item is in the visible node list of the next
\* render, and every path that was open is still open.
C14_SelectedNodeRevealed ==
  [][lastEvent'.type = "selectedPath" =>
       \A pos \in Positions(menuItems[1]) :
         ItemAt(menuItems[1], pos).path = selectedPath' => Revealed(pos)]_vars

\* C14 as amended: when selectedPath changes to the path of an item below
\* the root item, every proper ancestor of the item, the root included, is
\* open in the resulting openKeys, the item is in the visible node list of
\* the next render, and every path that was open is still open; when it
\* changes to the path of the root item, which is never rendered, openKeys
\* stays as it was.
C14_SelectedNodeBelowRootRevealed ==
  [][lastEvent'.type = "selectedPath" =>
       /\ \A pos \in PositionsOf(menuItems[1], selectedPath') : Revealed(pos)
       /\ selectedPath' = menuItems[1].path =>
            /\ openKeys' = openKeys
            /\ visibleNodesOf(menuItems, openKeys') = visibleNodes]_vars

\* C14 witness: selectedPath has changed to the path of the innermost item
\* while "core" was collapsed by hand, and the item is now in the list.
C14_Witness ==
  /\ menuItems = DocsMenu
  /\ lastEvent.type = "selectedPath"
  /\ selectedPath = "/core/box/a-b"
  /\ IsOpen(openKeys, "/home") /\ IsOpen(openKeys, "/core") /\ IsOpen(openKeys, "/core/box")
  /\ \E i \in 1..Len(visibleNodes) : visibleNodes[i].id = <<"a", "-", "b">>
  /\ currentNodeId = <<"A", "b", "c">>

\* C15: every key that changes the cursor (Down, Up, Tab, Shift+Tab, Home,
\* End, Left to the parent, a typeahead match) also sets currentNodeId to the
\* id of the node at the new cursor index, so that visibleNodes[cursor].id =
\* currentNodeId after the effect, and the effect gives that node the focus
\* (required here of the keys whose default action is prevented; after Tab
\* the browser moves the focus as well).
C15_CursorChangeSetsCurrentNode ==
  [][(lastEvent'.type = "keydown" /\ cursor' # cursor) =>
       LET after == visibleNodesOf(menuItems, openKeys')
       IN  /\ InRange(cursor', after)
           /\ currentNodeId' = after[cursor' + 1].id
           /\ lastEvent'.keyCode # KEY_TAB => focus' = currentNodeId']_vars

\* C16: from any cursor position Home sets the cursor to 0 and End sets it to
\* length - 1 of the current visible node list; both set currentNodeId to the
\* id of the node at the new index and leave openKeys as it was.
C16_HomeAndEndJump ==
  [][(Pressed(lastEvent', KEY_HOME) \/ Pressed(lastEvent', KEY_END)) =>
       LET target == IF lastEvent'.keyCode = KEY_HOME THEN 0 ELSE Len(visibleNodes) - 1
       IN  /\ ~lastEvent'.threw
           /\ cursor' = target
           /\ currentNodeId' = visibleNodes[target + 1].id
           /\ openKeys' = openKeys
           /\ onSelectCalls' = <<>>]_vars

\* C16 witness: End has moved the cursor to the last of five visible nodes
\* while the focus was on another node than the current one.
C16_Witness ==
  /\ menuItems = DocsMenu
  /\ Pressed(lastEvent, KEY_END)
  /\ lastEvent.path = "/core/box"
  /\ Len(visibleNodes) = 5
  /\ cursor = 4
  /\ currentNodeId = <<"A", "b", "c">>

\* An item below the item has the path.
HasBelow(item, path) ==
  \E pos \in Positions(item) \ {<<>>} : ItemAt(item, pos).path = path

\* The indices of the child items of the item whose path is the path.
DirectMatches(item, path) ==
  IF HasChildItems(item)
  THEN {k \in 1..Len(item.childItems) : item.childItems[k].path = path}
  ELSE {}

\* The indices of the child items that come before child k and have an item
\* with the path below them.
EarlierMatches(item, path, k) ==
  {j \in 1..(k - 1) : HasBelow(item.childItems[j], path)}

\* What keysToItem returns at the item at pos for selectedPath; for the root
\* item it is the list the component has computed.
KeysAt(pos) ==
  IF pos = <<>> THEN paths ELSE keysToItem(ItemAt(menuItems[1], pos), selectedPath)

\* C17 as stated: in every tree, one with two items of the same path
\* included, keysToItem at an item with a child whose path is selectedPath
\* returns exactly [item.path], also when an earlier child has an item with
\* that path below it.
C17_DirectChildWins ==
  lastEvent.type # "props" =>
    \A pos \in Positions(menuItems[1]) :
      LET item == ItemAt(menuItems[1], pos)
      IN  DirectMatches(item, selectedPath) # {} => KeysAt(pos) = <<item.path>>

\* C17 as amended: keysToItem at an item with a child whose path is
\* selectedPath returns exactly [item.path] when no earlier child has an item
\* with that path below it, which is always so in a tree with unique paths;
\* when an earlier child has one, the match below the first such child wins:
\* the list has at least two paths, that child's path before the item's path
\* at the end.
C17_FirstMatchInPreOrderWins ==
  lastEvent.type # "props" =>
    \A pos \in Positions(menuItems[1]) :
      LET item == ItemAt(menuItems[1], pos)
          direct == DirectMatches(item, selectedPath)
          first == CHOOSE k \in direct : \A j \in direct : k <= j
          earlier == EarlierMatches(item, selectedPath, first)
          sibling == CHOOSE j \in earlier : \A i \in earlier : j <= i
          keys == KeysAt(pos)
      IN  direct # {} =>
            /\ earlier = {} => keys = <<item.path>>
            /\ UniquePaths(menuItems[1]) => earlier = {}
            /\ earlier # {} =>
                 /\ Len(keys) >= 2
                 /\ keys[Len(keys)] = item.path
                 /\ keys[Len(keys) - 1] = item.childItems[sibling].path

\* C17 witness: the component has mounted with a tree in which a child of
\* the root and an item below an earlier child of the root both have the
\* selected path, and the list computed for the root has two paths.
C17_Witness ==
  /\ lastEvent.type = "mount"
  /\ \E k \in DirectMatches(menuItems[1], selectedPath) :
       /\ \A j \in DirectMatches(menuItems[1], selectedPath) : k <= j
       /\ EarlierMatches(menuItems[1], selectedPath, k) # {}
  /\ Len(paths) = 2
  /\ paths[2] = menuItems[1].path

\* C18: on mount openKeys has the paths of the proper ancestors of the
\* selected item, the root item included, as its keys, all open, and no other
\* key; when the selected item is rendered the cursor is its index in the
\* visible node list and currentNodeId its id; otherwise the cursor is 0 and
\* currentNodeId is not set.  Stated of the trees with unique paths.
C18_MountOpensAncestorsAndPlacesCursor ==
  (lastEvent.type = "mount" /\ UniquePaths(menuItems[1])) =>
    LET selected == PositionsOf(menuItems[1], selectedPath)
        rendered == {pos \in selected : pos \in Shown(menuItems, openKeys)}
    IN  /\ \A pos \in selected :
             /\ DOMAIN openKeys = Range(AncestorPaths(menuItems[1], pos))
             /\ menuItems[1].path \in DOMAIN openKeys
             /\ pos \in rendered
        /\ selected = {} => DOMAIN openKeys = {}
        /\ \A path \in DOMAIN openKeys : openKeys[path]
        /\ \A pos \in rendered :
             /\ InRange(cursor, visibleNodes)
             /\ visibleNodes[cursor + 1] = NodeAt(menuItems, pos)
             /\ PreOrder(Shown(menuItems, openKeys))[cursor + 1] = pos
             /\ currentNodeId = NodeAt(menuItems, pos).id
        /\ rendered = {} => (cursor = 0 /\ currentNodeId = NoNode)

\* C18 witness: the component has mounted on an item two levels below the
\* root that is not the first of the visible nodes.
C18_Witness ==
  /\ lastEvent.type = "mount"
  /\ UniquePaths(menuItems[1])
  /\ \E pos \in PositionsOf(menuItems[1], selectedPath) : Len(pos) = 2
  /\ Cardinality(DOMAIN openKeys) = 2
  /\ cursor >= 2
  /\ currentNodeId = visibleNodes[cursor + 1].id

\* C19: while currentNodeId is not set, Left and Right do nothing, whichever
\* item the key event goes to: cursor, currentNodeId and openKeys stay as they
\* are, onSelect is not called and nothing throws.
C19_LeftRightIdleWithoutCurrentNode ==
  [][((Pressed(lastEvent', KEY_LEFT) \/ Pressed(lastEvent', KEY_RIGHT))
        /\ currentNodeId = NoNode)
     => /\ cursor' = cursor
        /\ currentNodeId' = NoNode
        /\ openKeys' = openKeys
        /\ onSelectCalls' = <<>>
        /\ ~lastEvent'.threw]_vars

\* C19 witness: Right has gone to a collapsed parent that got the focus from
\* a click and then a second click, with no current node, and the parent is
\* still collapsed.
C19_Witness ==
  /\ menuItems = DocsMenu
  /\ Pressed(lastEvent, KEY_RIGHT)
  /\ lastEvent.path = "/core"
  /\ currentNodeId = NoNode
  /\ focus = <<"c", "o", "r", "e">>
  /\ "/core" \in DOMAIN openKeys
  /\ ~IsOpen(openKeys, "/core")

====
